---- MODULE Spec2Model ----
(***************************************************************************)
(* Model of generate_menu.py: the cafe menu HTML generator.                *)
(*                                                                         *)
(* A text is a sequence of characters, each character a one-token string.  *)
(* Persian digits are the tokens "P0" .. "P9"; the Persian literals of the *)
(* source are single transliterated tokens ("Kafeh", "Dasteh", ...).       *)
(* A JSON value is a tagged record: Null, StrV(s), IntV(n), BoolV(b),       *)
(* ListV(l), ObjV(f); a key an object does not hold maps to Absent.          *)
(***************************************************************************)
EXTENDS Integers, Sequences, FiniteSets, TLC

VARIABLES input_file, has_input_arg, page_title, use_persian_digits,
          pc, data, html, files, exit_code, steps, prev_anchors,
          u_price, u_currency, u_flag, u_out, u_pc

mainVars == <<input_file, has_input_arg, page_title, use_persian_digits,
              pc, data, html, files, exit_code, steps, prev_anchors>>
unitVars == <<u_price, u_currency, u_flag, u_out, u_pc>>
vars == <<mainVars, unitVars>>

----------------------------------------------------------------------------
(* Bounds *)
MaxLen == 2        \* longest free text drawn for an input field
MaxCats == 2       \* most categories in a menu
MaxItems == 2      \* most items in a category

----------------------------------------------------------------------------
(* JSON values *)
NotExited == 0 - 1     \* no exit status yet
NotLoaded == [t |-> "unloaded"]
NoHtml == [t |-> "nohtml"]
NoAnchors == [known |-> FALSE, ids |-> <<>>]
Absent == [t |-> "absent"]
Null == [t |-> "null"]
StrV(s) == [t |-> "str", s |-> s]
IntV(n) == [t |-> "int", n |-> n]
BoolV(b) == [t |-> "bool", b |-> b]
ListV(l) == [t |-> "list", l |-> l]
ObjV(f) == [t |-> "obj", f |-> f]

\* dict.get(key, default)
Get(o, key, default) ==
    IF key \in DOMAIN o.f /\ o.f[key].t # "absent" THEN o.f[key] ELSE default

----------------------------------------------------------------------------
(* Characters and texts *)
WesternDigits == <<"0", "1", "2", "3", "4", "5", "6", "7", "8", "9">>
PersianDigitGlyphs == <<"P0", "P1", "P2", "P3", "P4", "P5", "P6", "P7", "P8", "P9">>
Whitespace == {" "}

Range(s) == {s[i] : i \in DOMAIN s}
Strs(S, n) == UNION {[1..k -> S] : k \in 0..n}

RECURSIVE Flatten(_)
Flatten(ss) == IF ss = <<>> THEN <<>> ELSE Head(ss) \o Flatten(Tail(ss))

\* the translation table str.maketrans("0123456789", Persian digits)
PERSIAN_DIGITS ==
    [c \in Range(WesternDigits) |->
        PersianDigitGlyphs[CHOOSE i \in 1..10 : WesternDigits[i] = c]]

to_persian_digits(s) ==
    [i \in DOMAIN s |->
        IF s[i] \in DOMAIN PERSIAN_DIGITS THEN PERSIAN_DIGITS[s[i]] ELSE s[i]]

RECURSIVE LStrip(_)
LStrip(s) ==
    IF s # <<>> /\ Head(s) \in Whitespace THEN LStrip(Tail(s)) ELSE s

RECURSIVE RStrip(_)
RStrip(s) ==
    IF s # <<>> /\ s[Len(s)] \in Whitespace
    THEN RStrip(SubSeq(s, 1, Len(s) - 1)) ELSE s

\* str.strip()
Strip(s) == RStrip(LStrip(s))

\* str(n) for an int
RECURSIVE NatToStr(_)
NatToStr(n) ==
    IF n < 10 THEN <<WesternDigits[n + 1]>>
    ELSE NatToStr(n \div 10) \o <<WesternDigits[(n % 10) + 1]>>

IntToStr(n) == IF n < 0 THEN <<"-">> \o NatToStr(0 - n) ELSE NatToStr(n)

\* str(x) for a scalar
PyStr(x) ==
    CASE x.t = "str" -> x.s
      [] x.t = "int" -> IntToStr(x.n)
      [] x.t = "bool" -> IF x.b THEN <<"T", "r", "u", "e">>
                         ELSE <<"F", "a", "l", "s", "e">>
      [] x.t = "null" -> <<"N", "o", "n", "e">>

norm_text(x) == IF x.t = "null" THEN <<>> ELSE Strip(PyStr(x))

\* html.escape(s, quote=True)
EscapeChar(c) ==
    CASE c = "&" -> <<"&", "a", "m", "p", ";">>
      [] c = "<" -> <<"&", "l", "t", ";">>
      [] c = ">" -> <<"&", "g", "t", ";">>
      [] c = "\"" -> <<"&", "q", "u", "o", "t", ";">>
      [] c = "'" -> <<"&", "#", "x", "2", "7", ";">>
      [] OTHER -> <<c>>

escape(s) == Flatten([i \in DOMAIN s |-> EscapeChar(s[i])])

\* re.match(r"^[0-9P0-P9,]+$", p)
LooksNumeric(p) ==
    /\ Len(p) >= 1
    /\ \A i \in DOMAIN p :
         p[i] \in Range(WesternDigits) \cup Range(PersianDigitGlyphs) \cup {","}

\* fmt_price with the digits converted before the currency is appended
fmt_price_late_suffix(price, currency, flag) ==
    LET p == norm_text(price)
        q == IF flag THEN to_persian_digits(p) ELSE p
    IN  IF p = <<>> \/ p = <<"-">> THEN <<"-">>
        ELSE IF LooksNumeric(p) THEN Strip(q \o <<" ">> \o currency) ELSE q

fmt_price(price, currency, flag) ==
    LET p == norm_text(price)
        out == IF LooksNumeric(p) THEN Strip(p \o <<" ">> \o currency) ELSE p
    IN  IF p = <<>> \/ p = <<"-">> THEN <<"-">>
        ELSE IF flag THEN to_persian_digits(out) ELSE out

----------------------------------------------------------------------------
(* render_html *)
Lower(c) ==
    CASE c = "H" -> "h" [] c = "T" -> "t" [] c = "P" -> "p" [] c = "S" -> "s"
      [] OTHER -> c

HasPrefixIgnoreCase(s, pre) ==
    /\ Len(s) >= Len(pre)
    /\ \A i \in DOMAIN pre : Lower(s[i]) = pre[i]

\* re.match(r"^https?://", s.strip(), flags=re.I)
is_url(s) ==
    LET t == Strip(s)
    IN  \/ HasPrefixIgnoreCase(t, <<"h", "t", "t", "p", ":", "/", "/">>)
        \/ HasPrefixIgnoreCase(t, <<"h", "t", "t", "p", "s", ":", "/", "/">>)

\* the literals of the source
DefaultCafeName == <<"Kafeh">>
DefaultCurrency == <<"Hezar", " ", "Toman">>
DefaultIcon == <<"CoffeeIcon">>
Unnamed == <<"BedoonNam">>
AddressPrompt == <<"AddressPrompt">>
PhonePrompt == <<"PhonePrompt">>
NoItemsYet == <<"NoItemsYet">>
DefaultTitle(idx) == <<"Dasteh", " ">> \o IntToStr(idx)
Anchor(idx) == <<"c", "a", "t", "-">> \o IntToStr(idx)

NoFragment ==
    [kind |-> "none", label |-> <<>>, href |-> <<>>, target |-> "",
     rel |-> {}, text |-> <<>>]

\* link_or_text with the href left unescaped
link_or_text_raw_href(label, val) ==
    IF val = <<>> THEN NoFragment
    ELSE IF is_url(val)
    THEN [kind |-> "anchor", label |-> escape(label), href |-> val,
          target |-> "_blank", rel |-> {"noopener"}, text |-> escape(val)]
    ELSE [kind |-> "text", label |-> escape(label), href |-> <<>>,
          target |-> "", rel |-> {}, text |-> escape(val)]

link_or_text(label, val) ==
    IF val = <<>> THEN NoFragment
    ELSE IF is_url(val)
    THEN [kind |-> "anchor", label |-> escape(label), href |-> escape(val),
          target |-> "_blank", rel |-> {"noopener"}, text |-> escape(val)]
    ELSE [kind |-> "text", label |-> escape(label), href |-> <<>>,
          target |-> "", rel |-> {}, text |-> escape(val)]

\* iteration over a JSON value: a list yields its elements, a str its
\* characters; None, int and bool are not iterable
Iterable(v) == v.t \in {"list", "str"}
Elems(v) ==
    IF v.t = "list" THEN v.l
    ELSE IF v.t = "str" THEN [i \in DOMAIN v.s |-> StrV(<<v.s[i]>>)]
    ELSE <<>>

EmptyDict == ObjV(<<>>)
EmptyList == ListV(<<>>)

CafeOf(d) == Get(d, "cafe", EmptyDict)
MenuOf(d) == Get(d, "menu", EmptyList)
ItemsOf(cat) == Get(cat, "items", EmptyList)

\* the attribute and type errors render_html can raise: .get on a value
\* that is no dict, iteration over a value that is not iterable
CatRaises(cat) ==
    IF cat.t # "obj" THEN TRUE
    ELSE IF ~Iterable(ItemsOf(cat)) THEN TRUE
    ELSE \E j \in DOMAIN Elems(ItemsOf(cat)) :
            Elems(ItemsOf(cat))[j].t # "obj"

RenderRaises(d) ==
    IF d.t # "obj" THEN TRUE
    ELSE IF CafeOf(d).t # "obj" THEN TRUE
    ELSE IF ~Iterable(MenuOf(d)) THEN TRUE
    ELSE \E i \in DOMAIN Elems(MenuOf(d)) : CatRaises(Elems(MenuOf(d))[i])

PillLabel(cat, idx) ==
    escape(norm_text(Get(cat, "title", StrV(DefaultTitle(idx)))))

\* Pill with enumerate started at 0
Pill_zero_based(cat, idx) ==
    [href |-> <<"#">> \o Anchor(idx - 1), label |-> PillLabel(cat, idx)]

Pill(cat, idx) ==
    [href |-> <<"#">> \o Anchor(idx), label |-> PillLabel(cat, idx)]

PlaceholderCard ==
    [kind |-> "placeholder", thumb |-> "none", src |-> <<>>, alt |-> <<>>,
     icon |-> <<>>, name |-> <<>>, price |-> <<>>, has_desc |-> TRUE,
     desc |-> NoItemsYet]

Card(it, currency, flag) ==
    LET n0 == escape(norm_text(Get(it, "name", StrV(<<>>))))
        name == IF n0 # <<>> THEN n0 ELSE Unnamed
        desc == escape(norm_text(Get(it, "desc", StrV(<<>>))))
        price == fmt_price(Get(it, "price", StrV(<<>>)), currency, flag)
        img == norm_text(Get(it, "img", StrV(<<>>)))
        useImg == img # <<>> /\ is_url(img)
    IN  [kind |-> "item",
         thumb |-> IF useImg THEN "img" ELSE "icon",
         src |-> IF useImg THEN escape(img) ELSE <<>>,
         alt |-> IF useImg THEN name ELSE <<>>,
         icon |-> IF useImg THEN <<>>
                  ELSE escape(norm_text(Get(it, "icon", StrV(DefaultIcon)))),
         name |-> name,
         price |-> escape(price),
         has_desc |-> desc # <<>>,
         desc |-> desc]

\* Grid without the fallback for no cards
Grid_no_placeholder(cat, currency, flag) ==
    LET items == Elems(ItemsOf(cat))
    IN  [j \in DOMAIN items |-> Card(items[j], currency, flag)]

Grid(cat, currency, flag) ==
    LET items == Elems(ItemsOf(cat))
        cards == [j \in DOMAIN items |-> Card(items[j], currency, flag)]
    IN  IF cards # <<>> THEN cards ELSE <<PlaceholderCard>>

Section(cat, idx, currency, flag) ==
    [id |-> Anchor(idx),
     title |-> escape(norm_text(Get(cat, "title", StrV(DefaultTitle(idx))))),
     hint |-> escape(norm_text(Get(cat, "hint", StrV(<<>>)))),
     grid |-> Grid(cat, currency, flag)]

MenuBadgeHref == <<"#">> \o Anchor(1)

\* the document when render_html returns: one field per slot of the template
render_html(d, title, flag, now) ==
    LET cafe == CafeOf(d)
        menu == Elems(MenuOf(d))
        cafe_name == escape(norm_text(Get(cafe, "name", StrV(DefaultCafeName))))
        subtitle == escape(norm_text(Get(cafe, "subtitle", StrV(<<>>))))
        address == escape(norm_text(Get(cafe, "address", StrV(<<>>))))
        phone == escape(norm_text(Get(cafe, "phone", StrV(<<>>))))
        instagram == norm_text(Get(cafe, "instagram", StrV(<<>>)))
        telegram == norm_text(Get(cafe, "telegram", StrV(<<>>)))
        whatsapp == norm_text(Get(cafe, "whatsapp", StrV(<<>>)))
        maps == norm_text(Get(cafe, "maps", StrV(<<>>)))
        c0 == norm_text(Get(cafe, "currency", StrV(DefaultCurrency)))
        currency == IF c0 # <<>> THEN c0 ELSE DefaultCurrency
        phone_disp == IF flag /\ phone # <<>> THEN to_persian_digits(phone)
                      ELSE phone
    IN  [t |-> "html",
         head_title |-> escape(title),
         head_cafe |-> cafe_name,
         address |-> IF address # <<>> THEN escape(address) ELSE AddressPrompt,
         badge_href |-> MenuBadgeHref,
         badge |-> escape(title),
         h1 |-> cafe_name,
         subtitle |-> subtitle,
         pills |-> [i \in DOMAIN menu |-> Pill(menu[i], i)],
         phone |-> IF phone # <<>> THEN escape(phone_disp) ELSE PhonePrompt,
         links |-> <<link_or_text(<<"Instagram">>, instagram),
                     link_or_text(<<"Telegram">>, telegram),
                     link_or_text(<<"WhatsApp">>, whatsapp),
                     link_or_text(<<"Map">>, maps)>>,
         currency |-> escape(currency),
         sections |-> [i \in DOMAIN menu |-> Section(menu[i], i, currency, flag)],
         footer |-> escape(now)]

----------------------------------------------------------------------------
(* The inputs of a run: the file the --input argument names *)
TextChars == {"a", "&", "<", ">", "\"", "'", " ", "1"}
UrlSchemes ==
    {<<"h", "t", "t", "p", ":", "/", "/">>,
     <<"H", "T", "T", "P", "S", ":", "/", "/">>,
     <<"h", "t", "t", "p", "s", ":", "/">>,
     <<"f", "t", "p", ":", "/", "/">>}
UrlTails == {<<"a">>, <<"a", "&", "\"">>}
UrlVals == {sc \o tl : sc \in UrlSchemes, tl \in UrlTails}

FieldVals ==
    {Absent, Null, IntV(7), BoolV(FALSE)}
        \cup {StrV(s) : s \in Strs(TextChars, MaxLen) \cup UrlVals}

VenueKeys == {"name", "subtitle", "address", "phone", "instagram",
              "telegram", "whatsapp", "maps", "currency"}
ItemKeys == {"name", "desc", "price", "img", "icon"}
CatKeys == {"title", "hint", "items"}

BaseCafe ==
    [k \in VenueKeys |->
        CASE k = "name" -> StrV(<<"a">>)
          [] k = "phone" -> StrV(<<"1">>)
          [] OTHER -> Absent]
BaseItem ==
    [k \in ItemKeys |->
        CASE k = "name" -> StrV(<<"a">>)
          [] k = "price" -> IntV(10)
          [] OTHER -> Absent]
BaseCat ==
    [k \in CatKeys |->
        CASE k = "title" -> StrV(<<"a">>)
          [] k = "items" -> ListV(<<ObjV(BaseItem)>>)
          [] OTHER -> Absent]

CafeVals ==
    {Absent, Null, StrV(<<"a">>)}
        \cup {ObjV([BaseCafe EXCEPT ![k] = v]) : k \in VenueKeys, v \in FieldVals}
ItemVals ==
    {Null} \cup {ObjV([BaseItem EXCEPT ![k] = v]) : k \in ItemKeys, v \in FieldVals}
SampleItems ==
    {ObjV(BaseItem), ObjV([BaseItem EXCEPT !["name"] = StrV(<<"<">>)])}
ItemsVals ==
    {Absent, Null, StrV(<<>>), IntV(0), EmptyList}
        \cup {ListV(<<it>>) : it \in ItemVals}
        \cup {ListV(l) : l \in UNION {[1..n -> SampleItems] : n \in 2..MaxItems}}
CatVals ==
    {Null}
        \cup {ObjV([BaseCat EXCEPT ![k] = v]) : k \in {"title", "hint"}, v \in FieldVals}
        \cup {ObjV([BaseCat EXCEPT !["items"] = v]) : v \in ItemsVals}
TwoItems ==
    ListV(<<ObjV([BaseItem EXCEPT !["name"] = StrV(<<"<">>)]), ObjV(BaseItem)>>)
SampleCats ==
    {ObjV([BaseCat EXCEPT !["items"] = TwoItems]),
     ObjV([BaseCat EXCEPT !["title"] = Absent, !["items"] = Absent]),
     ObjV([BaseCat EXCEPT !["title"] = Null, !["items"] = EmptyList])}
MenuVals ==
    {Absent, Null, StrV(<<>>), StrV(<<"a">>), EmptyList}
        \cup {ListV(<<c>>) : c \in CatVals}
        \cup {ListV(l) : l \in UNION {[1..n -> SampleCats] : n \in 2..MaxCats}}

Doc(cafe, menu) == ObjV([k \in {"cafe", "menu"} |-> IF k = "cafe" THEN cafe ELSE menu])
BaseDoc == Doc(ObjV(BaseCafe), ListV(<<ObjV(BaseCat)>>))
Docs ==
    {Null, EmptyList}
        \cup {Doc(c, ListV(<<ObjV(BaseCat)>>)) : c \in CafeVals}
        \cup {Doc(ObjV(BaseCafe), m) : m \in MenuVals}

Missing == [t |-> "missing"]          \* no readable file at the path
Unparsable == [t |-> "unparsable"]    \* a file that is not JSON
PageTitles == {<<"M">>, <<"<", "&">>, <<"'", "\"">>}
\* the texts datetime.now().strftime can give in two different minutes
Times == {<<"0", "6", ":", "0", "0">>, <<"0", "6", ":", "0", "1">>}

----------------------------------------------------------------------------
(* main *)
Init ==
    /\ input_file \in Docs \cup {Missing, Unparsable}
    /\ has_input_arg \in BOOLEAN
    /\ has_input_arg = FALSE => input_file = Missing
    /\ page_title \in PageTitles
    /\ page_title # <<"M">> => input_file = BaseDoc
    /\ use_persian_digits \in BOOLEAN
    /\ pc = "parse_args"
    /\ data = NotLoaded
    /\ html = NoHtml
    /\ files = <<>>
    /\ exit_code = NotExited
    /\ steps = <<>>
    /\ prev_anchors = NoAnchors
    /\ u_price = Null /\ u_currency = <<>> /\ u_flag = FALSE
    /\ u_out = <<>> /\ u_pc = "idle"

Exit(code) ==
    /\ pc' = "exited"
    /\ exit_code' = code

\* ap.parse_args()
ParseArgs ==
    /\ pc = "parse_args"
    /\ has_input_arg
    /\ pc' = "load"
    /\ UNCHANGED <<input_file, has_input_arg, page_title, use_persian_digits,
                   data, html, files, exit_code, steps, prev_anchors, unitVars>>

\* --input is required: argparse exits with status 2
ParseArgsError ==
    /\ pc = "parse_args"
    /\ ~has_input_arg
    /\ Exit(2)
    /\ UNCHANGED <<input_file, has_input_arg, page_title, use_persian_digits,
                   data, html, files, steps, prev_anchors, unitVars>>

\* data = load_json(args.input)
LoadJson ==
    /\ pc = "load"
    /\ input_file \notin {Missing, Unparsable}
    /\ data' = input_file
    /\ steps' = Append(steps, "read")
    /\ pc' = "render"
    /\ UNCHANGED <<input_file, has_input_arg, page_title, use_persian_digits,
                   html, files, exit_code, prev_anchors, unitVars>>

\* LoadJsonRaises with the exception caught and an empty record used
LoadJsonRaises_swallowed ==
    /\ pc = "load"
    /\ input_file \in {Missing, Unparsable}
    /\ data' = EmptyDict
    /\ steps' = Append(steps, "read")
    /\ pc' = "render"
    /\ UNCHANGED <<input_file, has_input_arg, page_title, use_persian_digits,
                   html, files, exit_code, prev_anchors, unitVars>>

\* open or json.load raises: the uncaught exception ends the run, status 1
LoadJsonRaises ==
    /\ pc = "load"
    /\ input_file \in {Missing, Unparsable}
    /\ Exit(1)
    /\ UNCHANGED <<input_file, has_input_arg, page_title, use_persian_digits,
                   data, html, files, steps, prev_anchors, unitVars>>

\* html = render_html(data, page_title=args.title, ...)
RenderHtml ==
    /\ pc = "render"
    /\ ~RenderRaises(data)
    /\ \E now \in Times :
         html' = render_html(data, page_title, use_persian_digits, now)
    /\ steps' = Append(steps, "render")
    /\ pc' = "write_css"
    /\ UNCHANGED <<input_file, has_input_arg, page_title, use_persian_digits,
                   data, files, exit_code, prev_anchors, unitVars>>

RenderHtmlRaises ==
    /\ pc = "render"
    /\ RenderRaises(data)
    /\ Exit(1)
    /\ UNCHANGED <<input_file, has_input_arg, page_title, use_persian_digits,
                   data, html, files, steps, prev_anchors, unitVars>>

\* safe_write(path, content) returns
safe_write(name, step, next) ==
    /\ files' = Append(files, name)
    /\ steps' = Append(steps, step)
    /\ pc' = next
    /\ UNCHANGED <<input_file, has_input_arg, page_title, use_persian_digits,
                   data, html, exit_code, prev_anchors, unitVars>>

\* os.makedirs or open raises in safe_write
SafeWriteRaises ==
    /\ Exit(1)
    /\ UNCHANGED <<input_file, has_input_arg, page_title, use_persian_digits,
                   data, html, files, steps, prev_anchors, unitVars>>

WriteCss == pc = "write_css" /\ safe_write("style.css", "write_css", "write_html")
WriteCssRaises == pc = "write_css" /\ SafeWriteRaises
WriteHtml == pc = "write_html" /\ safe_write("menu.html", "write_html", "print")
WriteHtmlRaises == pc = "write_html" /\ SafeWriteRaises

\* the prints and return 0
Return ==
    /\ pc = "print"
    /\ Exit(0)
    /\ UNCHANGED <<input_file, has_input_arg, page_title, use_persian_digits,
                   data, html, files, steps, prev_anchors, unitVars>>

AnchorsOf(doc) ==
    [known |-> TRUE,
     ids |-> [i \in DOMAIN doc.sections |->
                <<doc.sections[i].id, doc.pills[i].href>>]]

\* the operator runs the command again on the same input
Rerun ==
    /\ pc = "exited"
    /\ exit_code = 0
    /\ prev_anchors' = AnchorsOf(html)
    /\ pc' = "parse_args"
    /\ data' = NotLoaded
    /\ html' = NoHtml
    /\ files' = <<>>
    /\ exit_code' = NotExited
    /\ steps' = <<>>
    /\ UNCHANGED <<input_file, has_input_arg, page_title, use_persian_digits,
                   unitVars>>

Next ==
    \/ ParseArgs \/ ParseArgsError
    \/ LoadJson \/ LoadJsonRaises
    \/ RenderHtml \/ RenderHtmlRaises
    \/ WriteCss \/ WriteCssRaises
    \/ WriteHtml \/ WriteHtmlRaises
    \/ Return \/ Rerun

Spec == Init /\ [][Next]_vars

----------------------------------------------------------------------------
(* fmt_price called on its own: inputs drawn from bounded sets *)
PriceChars == {"1", "0", "P1", ",", "-", "a", " "}
PriceVals ==
    {Null, BoolV(TRUE)} \cup {IntV(n) : n \in -1..11}
        \cup {StrV(s) : s \in Strs(PriceChars, MaxLen)}
CurrencyChars == {"K", "1", " "}
CurrencyVals == Strs(CurrencyChars, MaxLen) \ {<<>>}

UnitIdle ==
    /\ input_file = Null /\ has_input_arg = FALSE /\ page_title = <<>>
    /\ use_persian_digits = FALSE /\ pc = "unit" /\ data = NotLoaded
    /\ html = NoHtml /\ files = <<>> /\ exit_code = NotExited /\ steps = <<>>
    /\ prev_anchors = NoAnchors

InitPrice ==
    /\ UnitIdle
    /\ u_price \in PriceVals
    /\ u_currency \in CurrencyVals
    /\ u_flag \in BOOLEAN
    /\ u_out = <<>>
    /\ u_pc = "call"

CallFmtPrice ==
    /\ u_pc = "call"
    /\ u_out' = fmt_price(u_price, u_currency, u_flag)
    /\ u_pc' = "returned"
    /\ UNCHANGED <<mainVars, u_price, u_currency, u_flag>>

NextPrice == CallFmtPrice
SpecPrice == InitPrice /\ [][NextPrice]_vars
----------------------------------------------------------------------------
(* Properties *)
Rendered == html.t = "html"
InputMenu == Elems(MenuOf(data))
InputCafe == CafeOf(data)
Venue(key) == norm_text(Get(InputCafe, key, StrV(<<>>)))

Contains(t, sub) ==
    \E i \in 1..(Len(t) - Len(sub) + 1) : SubSeq(t, i, i + Len(sub) - 1) = sub

MarkupChars == {"<", ">", "\"", "'"}
EntityOf ==
    {<<"&", <<"&", "a", "m", "p", ";">> >>,
     <<"<", <<"&", "l", "t", ";">> >>,
     <<">", <<"&", "g", "t", ";">> >>,
     <<"\"", <<"&", "q", "u", "o", "t", ";">> >>,
     <<"'", <<"&", "#", "x", "2", "7", ";">> >>}

StartsWith(t, pre) == Len(t) >= Len(pre) /\ SubSeq(t, 1, Len(pre)) = pre

\* no markup character is literal in t, and every & of t opens an entity
IsEscaped(t) ==
    \A i \in DOMAIN t :
        /\ t[i] \notin MarkupChars
        /\ t[i] = "&" =>
             \E e \in EntityOf : StartsWith(SubSeq(t, i, Len(t)), e[2])

\* one pass of HTML-unescaping
RECURSIVE Unescape(_)
Unescape(t) ==
    IF t = <<>> THEN <<>>
    ELSE IF \E e \in EntityOf : StartsWith(t, e[2])
    THEN LET e == CHOOSE x \in EntityOf : StartsWith(t, x[2])
         IN  <<e[1]>> \o Unescape(SubSeq(t, Len(e[2]) + 1, Len(t)))
    ELSE <<Head(t)>> \o Unescape(Tail(t))

CardTexts(c) == {c.src, c.alt, c.icon, c.name, c.price, c.desc}
SectionTexts(sec) ==
    {sec.title, sec.hint} \cup UNION {CardTexts(sec.grid[j]) : j \in DOMAIN sec.grid}
EmbeddedTexts(doc) ==
    {doc.head_title, doc.head_cafe, doc.address, doc.badge, doc.h1,
     doc.subtitle, doc.phone, doc.currency, doc.footer}
        \cup {doc.pills[i].label : i \in DOMAIN doc.pills}
        \cup UNION {{doc.links[i].href, doc.links[i].text, doc.links[i].label} :
                      i \in DOMAIN doc.links}
        \cup UNION {SectionTexts(doc.sections[i]) : i \in DOMAIN doc.sections}

\* C1: every input-derived text the document embeds is HTML-escaped: none
\* holds a literal <, >, " or ', and every & in it opens an escape entity.
C1_AllTextsEscaped ==
    Rendered => \A t \in EmbeddedTexts(html) : IsEscaped(t)

C1_Witness ==
    /\ Rendered
    /\ html.links[2].kind = "anchor"
    /\ Contains(html.links[2].href, <<"&", "q", "u", "o", "t", ";">>)
    /\ Contains(Venue("telegram"), <<"\"">>)

----------------------------------------------------------------------------
AltGlyph(c) ==
    CASE c = "0" -> "P0" [] c = "1" -> "P1" [] c = "2" -> "P2"
      [] c = "3" -> "P3" [] c = "4" -> "P4" [] c = "5" -> "P5"
      [] c = "6" -> "P6" [] c = "7" -> "P7" [] c = "8" -> "P8"
      [] c = "9" -> "P9" [] OTHER -> c

NumeralChars ==
    {"0", "1", "2", "3", "4", "5", "6", "7", "8", "9", ",",
     "P0", "P1", "P2", "P3", "P4", "P5", "P6", "P7", "P8", "P9"}

\* the reference function of the claim; with trimTail the label's trailing
\* whitespace is dropped from the result
RefPrice(price, currency, flag, trimTail) ==
    LET p == IF price.t = "null" THEN <<>> ELSE Strip(PyStr(price))
        suffixed == p \o <<" ">> \o currency
        r == IF p = <<>> \/ p = <<"-">> THEN <<"-">>
             ELSE IF Range(p) \subseteq NumeralChars
             THEN (IF trimTail THEN RStrip(suffixed) ELSE suffixed)
             ELSE p
    IN  IF flag THEN [i \in DOMAIN r |-> AltGlyph(r[i])] ELSE r

\* C2 as stated: fmt_price equals the reference function that appends one
\* space and the currency label unchanged, for every non-empty label.
C2_AsStated ==
    u_pc = "returned" =>
        /\ u_out = RefPrice(u_price, u_currency, u_flag, FALSE)
        /\ u_out # <<>>

\* C2 amended: fmt_price equals the reference function in which trailing
\* whitespace left by the currency label is removed; never the empty text.
C2_PriceMatchesReference ==
    u_pc = "returned" =>
        /\ u_out = RefPrice(u_price, u_currency, u_flag, TRUE)
        /\ u_out # <<>>

C2_Witness ==
    /\ u_pc = "returned"
    /\ u_flag
    /\ LooksNumeric(norm_text(u_price))
    /\ "1" \in Range(u_currency)
    /\ "P1" \in Range(u_out)
    /\ u_currency[Len(u_currency)] \in Whitespace

----------------------------------------------------------------------------
ExpectedAnchor(k) == <<"c", "a", "t", "-">> \o NatToStr(k)

\* C3: section k carries the anchor derived from k, pill k links to that
\* anchor, anchors are pairwise distinct, sections and pills follow the
\* input order, and a rerun on the same input gives the same anchors.
C3_AnchorsByInputOrder ==
    Rendered =>
        /\ Len(html.sections) = Len(InputMenu)
        /\ Len(html.pills) = Len(InputMenu)
        /\ \A k \in DOMAIN InputMenu :
             /\ html.sections[k].id = ExpectedAnchor(k)
             /\ html.pills[k].href = <<"#">> \o html.sections[k].id
             /\ html.pills[k].label = html.sections[k].title
             /\ Get(InputMenu[k], "title", Absent).t = "str" =>
                  html.pills[k].label = escape(Strip(InputMenu[k].f["title"].s))
        /\ \A j, k \in DOMAIN InputMenu :
             j # k => html.sections[j].id # html.sections[k].id
        /\ prev_anchors.known => AnchorsOf(html) = prev_anchors

C3_Witness ==
    /\ Rendered
    /\ Len(html.sections) >= 2
    /\ prev_anchors.known

----------------------------------------------------------------------------
HasTitle(cat) ==
    /\ Get(cat, "title", Absent).t \notin {"absent", "null"}
    /\ norm_text(Get(cat, "title", Absent)) # <<>>

\* C4: the label of pill N and of section N is the category's title, or
\* the fallback "Category N" when the title is absent, null or blank; it is
\* never empty.
C4_LabelOrFallback ==
    Rendered =>
        \A k \in DOMAIN InputMenu :
            /\ html.pills[k].label =
                 IF HasTitle(InputMenu[k])
                 THEN escape(norm_text(Get(InputMenu[k], "title", Absent)))
                 ELSE DefaultTitle(k)
            /\ html.sections[k].title = html.pills[k].label
            /\ html.pills[k].label # <<>>

----------------------------------------------------------------------------
\* the elements of the category list are objects, and so are the elements
\* of every item list: the anomalies left are the ones the claim names
ElementsAreObjects(d) ==
    /\ MenuOf(d).t = "list" =>
         \A i \in DOMAIN MenuOf(d).l :
            /\ MenuOf(d).l[i].t = "obj"
            /\ ItemsOf(MenuOf(d).l[i]).t = "list" =>
                 \A j \in DOMAIN ItemsOf(MenuOf(d).l[i]).l :
                    ItemsOf(MenuOf(d).l[i]).l[j].t = "obj"

\* C5: for a top-level record that is an object, render_html returns a
\* document whatever optional field is absent, null or a stray scalar.
C5_RenderNeverFails ==
    (pc = "exited" /\ data.t = "obj" /\ ElementsAreObjects(data)) =>
        "render" \in Range(steps)

----------------------------------------------------------------------------
LinkKeys == <<"instagram", "telegram", "whatsapp", "maps">>

IsHttpUrl(v) ==
    \E n \in {7, 8} :
        /\ Len(v) >= n
        /\ [i \in 1..n |-> Lower(v[i])] \in
              {<<"h", "t", "t", "p", ":", "/", "/">>,
               <<"h", "t", "t", "p", "s", ":", "/", "/">>}

\* C6: link_or_text renders nothing for an empty value, an anchor to exactly
\* the value, opened in a new context with neither referrer nor opener
\* leaked, for an http(s) value, and plain escaped text otherwise.
C6_LinkOrText ==
    Rendered =>
        \A i \in DOMAIN LinkKeys :
            LET v == Venue(LinkKeys[i])
                frag == html.links[i]
            IN  IF v = <<>> THEN frag.kind = "none"
                ELSE IF IsHttpUrl(v)
                THEN /\ frag.kind = "anchor"
                     /\ Unescape(frag.href) = v
                     /\ frag.target = "_blank"
                     /\ {"noopener", "noreferrer"} \subseteq frag.rel
                ELSE /\ frag.kind = "text"
                     /\ Unescape(frag.text) = v

----------------------------------------------------------------------------
RunOrder == <<"read", "render", "write_css", "write_html">>

\* C7: the steps of a run are a prefix of read, render, write stylesheet,
\* write document; a missing, unreadable or unparsable input ends the run
\* with a non-zero status and no file written; status 0 is given only after
\* exactly the two files were written.
C7_RunOrder ==
    /\ Len(steps) <= Len(RunOrder) /\ steps = SubSeq(RunOrder, 1, Len(steps))
    /\ files = SelectSeq(<<"style.css", "menu.html">>,
                         LAMBDA f : (f = "style.css" /\ Len(steps) >= 3)
                                    \/ (f = "menu.html" /\ Len(steps) >= 4))
    /\ (pc = "exited" /\ input_file.t # "obj") =>
          exit_code # 0 /\ files = <<>>
    /\ input_file.t # "obj" => files = <<>>
    /\ exit_code = 0 =>
          steps = RunOrder /\ files = <<"style.css", "menu.html">>
    /\ (pc = "exited" /\ steps = RunOrder) => exit_code = 0

C7_Witness ==
    /\ pc = "exited"
    /\ input_file = Unparsable
    /\ exit_code = 1
    /\ files = <<>>

----------------------------------------------------------------------------
ExpectedName(it) ==
    LET n == escape(norm_text(Get(it, "name", StrV(<<>>))))
    IN  IF n = <<>> THEN Unnamed ELSE n

\* C8: a category without items shows exactly one card, the placeholder; a
\* category of m >= 1 items shows exactly m item cards in input order.
C8_PlaceholderOrItems ==
    Rendered =>
        \A k \in DOMAIN InputMenu :
            LET items == Elems(ItemsOf(InputMenu[k]))
                grid == html.sections[k].grid
            IN  IF Len(items) = 0
                THEN Len(grid) = 1 /\ grid[1].kind = "placeholder"
                                   /\ grid[1].desc = NoItemsYet
                ELSE /\ Len(grid) = Len(items)
                     /\ \A j \in DOMAIN grid :
                          /\ grid[j].kind = "item"
                          /\ grid[j].name = ExpectedName(items[j])

C8_Witness ==
    /\ Rendered
    /\ \E k \in DOMAIN html.sections :
          Len(html.sections[k].grid) = 1 /\ html.sections[k].grid[1].kind = "placeholder"
    /\ \E k \in DOMAIN html.sections :
          /\ Len(html.sections[k].grid) >= 2
          /\ html.sections[k].grid[1].name # html.sections[k].grid[2].name

----------------------------------------------------------------------------
\* C9: each venue text is escaped exactly once: unescaping the embedded text
\* once gives back the trimmed input (for the phone with the flag set, the
\* trimmed input with its Western digits converted).
C9_EscapedOnce ==
    Rendered =>
        /\ Unescape(html.h1) =
             norm_text(Get(InputCafe, "name", StrV(DefaultCafeName)))
        /\ Unescape(html.head_cafe) = Unescape(html.h1)
        /\ Unescape(html.subtitle) = Venue("subtitle")
        /\ Venue("address") # <<>> => Unescape(html.address) = Venue("address")
        /\ Venue("phone") # <<>> =>
             Unescape(html.phone) =
                IF use_persian_digits THEN to_persian_digits(Venue("phone"))
                ELSE Venue("phone")

----------------------------------------------------------------------------
InPageLinks(doc) == {doc.badge_href} \cup {doc.pills[i].href : i \in DOMAIN doc.pills}

\* C10: every in-page link of the document, the category pills and the
\* top-bar menu badge, targets the id of a rendered category section.
C10_LinksResolve ==
    Rendered =>
        \A h \in InPageLinks(html) :
            \E k \in DOMAIN html.sections : h = <<"#">> \o html.sections[k].id
====
